---- MODULE Spec2Model ----
(***************************************************************************)
(* Model of rust-boundaries (src/src/main.rs): a playlist is read, every   *)
(* line is analysed in parallel (rayon par_iter_mut().enumerate()) by      *)
(* analyze(), results are stored by index in a Mutex<Vec<AnalyzeResult>>,  *)
(* and after the parallel loop the annotated playlist is written.          *)
(*                                                                         *)
(* Conventions.  A string is a sequence of symbols; the symbol "#EXTM3U"   *)
(* stands for these seven characters, LF and CR for the bytes 0x0A, 0x0D.  *)
(* Times (f32 seconds in the source) are integers counting tenths of a     *)
(* second, so 0.4 s is 4 and 15 s is 150; loudness values are whole LU.    *)
(* Two specifications share the module: Spec is a whole run of main(),     *)
(* SpecAnalyze is one call of analyze() taken statement by statement over  *)
(* a bounded set of sampler outputs.                                       *)
(***************************************************************************)
EXTENDS Integers, Sequences, FiniteSets, TLC

VARIABLES
    \* ---- main() ----
    file,            \* content of the playlist file, or NoFile
    append,          \* args.append
    out_file,        \* content of the output file, a sequence of lines
    out_state,       \* the output path: "absent", "present", or "denied" when it
                     \* can be neither opened nor created
    main_pc,         \* position of the main thread
    playlist_lines,  \* Vec<String> playlist_lines
    results,         \* the Vec<AnalyzeResult> inside the Mutex
    lock,            \* holder of the Mutex: 0 = free, i = the closure of entry i
    pc,              \* pc[i]: position of the closure run for entry i
    r,               \* r[i]: the closure's local `r`
    store_order,     \* the entries i in the order line 220 stored results[i]
    out_opens,       \* number of times the output file was opened or created
    result_string,   \* String result_string
    \* ---- analyze() ----
    a_pc, measure, loudness, duration, vol_drop, vol_start,
    ebu_cue_time, cue_time, next_level, next_time, rev_scans, a_result

main_vars == <<file, append, out_file, out_state, main_pc, playlist_lines,
               results, lock, pc, r, store_order, out_opens, result_string>>
analyze_vars == <<a_pc, measure, loudness, duration, vol_drop, vol_start,
                  ebu_cue_time, cue_time, next_level, next_time, rev_scans, a_result>>
vars == <<main_vars, analyze_vars>>

----------------------------------------------------------------------------
(* Bounds of the model *)

\* longest playlist (number of lines in the file)
MaxLines == 2
\* longest sample sequence handed to analyze() in SpecAnalyze
MaxSamples == 2

(* Program constants *)

\* the 400 ms EBU R.128 block, in tenths of a second
WindowComp == 4
\* the 15 s tail that triggers the second backward scan, in tenths of a second
TailLimit == 150
\* the 15 LU by which the second backward scan lowers the level
TailExtraLU == 15
\* the -23 LUFS reference of liq_amplify
TargetLUFS == -23
\* default of --level
DefaultLevel == 8
\* default of --cue
DefaultCue == 40

NoFile == <<"ENOENT">>
LF == "LF"
CR == "CR"
Header == <<"#EXTM3U">>

Max(a, b) == IF a >= b THEN a ELSE b

----------------------------------------------------------------------------
(* first_time_threshold *)

\* the scan order: measure.iter() or measure.iter().rev()
Reverse(s) == [k \in 1..Len(s) |-> s[Len(s) + 1 - k]]

ScanOrder(m, rev) == IF rev THEN Reverse(m) ELSE m

\* item.1 > threshold
Exceeds_ge(item, threshold) == item[2] >= threshold

Exceeds(item, threshold) == item[2] > threshold

\* the for loop over the iterator, returning item.0 at the first hit, else 0.
RECURSIVE ScanLoop(_, _)
ScanLoop(items, threshold) ==
    IF items = <<>> THEN 0
    ELSE IF Exceeds(Head(items), threshold) THEN Head(items)[1]
    ELSE ScanLoop(Tail(items), threshold)

first_time_threshold(m, threshold, rev) == ScanLoop(ScanOrder(m, rev), threshold)

----------------------------------------------------------------------------
(* analyze, as pure operators over the sampler's output *)

CueLevel(l, vs) == l - vs

CueTime_noclamp(ebu) == ebu - WindowComp

\* f32::max(0., ebu_cue_time - 0.4)
CueTime(ebu) == Max(0, ebu - WindowComp)

NextLevel(l, vd) == l - vd

TailTooLong_ge(d, nt) == d - nt >= TailLimit

\* duration - next_time > 15.
TailTooLong(d, nt) == d - nt > TailLimit

CorrectedLevel_raise(l, vd) == l - vd + TailExtraLU

\* loudness - vol_drop - 15.
CorrectedLevel(l, vd) == l - vd - TailExtraLU

StartNext_noclamp(d, nt) == d - nt

\* f32::max(duration - next_time, 0.)
StartNext(d, nt) == Max(d - nt, 0)

\* next_time as it stands at line 158
FinalNextTime(m, l, d, vd) ==
    LET nt == first_time_threshold(m, NextLevel(l, vd), TRUE)
    IN  IF TailTooLong(d, nt)
        THEN first_time_threshold(m, CorrectedLevel(l, vd), TRUE)
        ELSE nt

\* the AnalyzeResult built at lines 160-166
MakeResult(sn, cp, d, l, path) ==
    [start_next |-> sn, cue_point |-> cp, duration |-> d, loudness |-> l, path |-> path]

\* analyze(path, vol_drop, vol_start) once the sampler has produced prof
Analyze(path, prof, vd, vs) ==
    MakeResult(StartNext(prof.duration,
                         FinalNextTime(prof.measure, prof.loudness, prof.duration, vd)),
               CueTime(first_time_threshold(prof.measure,
                                            CueLevel(prof.loudness, vs), FALSE)),
               prof.duration, prof.loudness, path)

\* #[derive(Default)] AnalyzeResult
DefaultResult == MakeResult(0, 0, 0, 0, <<>>)

----------------------------------------------------------------------------
(* The playlist file and BufReader::lines() *)

\* position of the first LF of f, 0 when there is none
FirstLF(f) ==
    IF \E k \in 1..Len(f) : f[k] = LF
    THEN CHOOSE k \in 1..Len(f) : f[k] = LF /\ \A j \in 1..(k - 1) : f[j] # LF
    ELSE 0

\* lines(): a line loses its final LF, and then a CR that preceded that LF
StripEol(raw) ==
    IF raw # <<>> /\ raw[Len(raw)] = LF
    THEN LET b == SubSeq(raw, 1, Len(raw) - 1)
         IN  IF b # <<>> /\ b[Len(b)] = CR THEN SubSeq(b, 1, Len(b) - 1) ELSE b
    ELSE raw

\* the items of reader.lines(): read_line until it reads nothing
RECURSIVE Lines(_)
Lines(f) ==
    IF f = <<>> THEN <<>>
    ELSE LET n == IF FirstLF(f) = 0 THEN Len(f) ELSE FirstLF(f)
         IN  <<StripEol(SubSeq(f, 1, n))>> \o Lines(SubSeq(f, n + 1, Len(f)))

\* s != "#EXTM3U\n"
KeepLine(s) == s # Header \o <<LF>>

\* the loop of lines 194-200
ReadLines(f) == SelectSeq(Lines(f), KeepLine)

----------------------------------------------------------------------------
(* Inputs of a run *)

RECURSIVE SeqsUpTo(_, _)
SeqsUpTo(S, n) ==
    IF n = 0 THEN {<<>>}
    ELSE LET shorter == SeqsUpTo(S, n - 1)
         IN  shorter \cup {Append(s, x) : s \in {t \in shorter : Len(t) = n - 1}, x \in S}

\* the lines a playlist is written with: empty, the header, two media paths
LineChoices == {<<>>, Header, <<"a">>, <<"b">>}

RECURSIVE Serialize(_, _, _)
Serialize(ls, eol, final) ==
    IF ls = <<>> THEN <<>>
    ELSE IF Len(ls) = 1 THEN Head(ls) \o (IF final THEN eol ELSE <<>>)
    ELSE Head(ls) \o eol \o Serialize(Tail(ls), eol, final)

PlaylistFiles ==
    {Serialize(ls, eol, final) :
        ls \in SeqsUpTo(LineChoices, MaxLines), eol \in {<<LF>>, <<CR, LF>>},
        final \in BOOLEAN}

\* what the sampler (ffmpeg ebur128) reports for a track in a whole run
MainProfiles ==
    {[measure |-> <<<<0, -60>>, <<4, -20>>, <<10, -15>>, <<1795, -40>>, <<1800, -50>>>>,
      loudness |-> -14, duration |-> 1800],
     [measure |-> <<<<3, -30>>, <<60, -20>>>>, loudness |-> -23, duration |-> 100]}

\* a line of the output file
Line(text, cue_in, cross, dur, amplify, path) ==
    [text |-> text, liq_cue_in |-> cue_in, liq_cross_duration |-> cross,
     duration |-> dur, liq_amplify |-> amplify, path |-> path]

HeaderLine == Line("#EXTM3U", 0, 0, 0, 0, <<>>)
OldLine == Line("old", 0, 0, 0, 0, <<>>)

\* the format! of lines 267-268
Annotate(res) ==
    Line("annotate", res.cue_point, res.start_next, res.duration,
         TargetLUFS - res.loudness, res.path)

Tasks == 1..Len(playlist_lines)
Terminated == {"done", "panicked", "skipped"}

Init ==
    /\ file \in PlaylistFiles \cup {NoFile}
    /\ append \in BOOLEAN
    /\ out_state \in {"absent", "present", "denied"}
    /\ out_file = IF out_state = "present" THEN <<OldLine>> ELSE <<>>
    /\ main_pc = "start"
    /\ playlist_lines = <<>>
    /\ results = <<>>
    /\ lock = 0
    /\ pc = <<>>
    /\ r = <<>>
    /\ store_order = <<>>
    /\ out_opens = 0
    /\ result_string = <<>>
    /\ a_pc = "off"
    /\ measure = <<>>
    /\ loudness = 0
    /\ duration = 0
    /\ vol_drop = DefaultLevel
    /\ vol_start = DefaultCue
    /\ ebu_cue_time = 0
    /\ cue_time = 0
    /\ next_level = 0
    /\ next_time = 0
    /\ rev_scans = 0
    /\ a_result = DefaultResult

----------------------------------------------------------------------------
(* main(), up to the parallel loop *)

\* File::open(&args.path).unwrap() fails
OpenPlaylistFail ==
    /\ main_pc = "start"
    /\ file = NoFile
    /\ main_pc' = "panic_input"
    /\ UNCHANGED <<file, append, out_file, out_state, playlist_lines, results, lock,
                   pc, r, store_order, out_opens, result_string>>
    /\ UNCHANGED analyze_vars

ReadPlaylist ==
    /\ main_pc = "start"
    /\ file # NoFile
    /\ playlist_lines' = ReadLines(file)
    /\ main_pc' = "alloc"
    /\ UNCHANGED <<file, append, out_file, out_state, results, lock,
                   pc, r, store_order, out_opens, result_string>>
    /\ UNCHANGED analyze_vars

\* one iteration of the loop of lines 211-213
AllocSlot ==
    /\ main_pc = "alloc"
    /\ Len(results) < Len(playlist_lines)
    /\ lock = 0
    /\ results' = Append(results, DefaultResult)
    /\ UNCHANGED <<file, append, out_file, out_state, main_pc, playlist_lines, lock,
                   pc, r, store_order, out_opens, result_string>>
    /\ UNCHANGED analyze_vars

\* par_iter_mut().enumerate().for_each: one closure per entry
StartParallel ==
    /\ main_pc = "alloc"
    /\ Len(results) = Len(playlist_lines)
    /\ main_pc' = "par"
    /\ pc' = [i \in Tasks |-> "idle"]
    /\ r' = [i \in Tasks |-> <<>>]
    /\ store_order' = <<>>
    /\ UNCHANGED <<file, append, out_file, out_state, playlist_lines, results, lock,
                   out_opens, result_string>>
    /\ UNCHANGED analyze_vars

----------------------------------------------------------------------------
(* The closure |(i, op)| of lines 218-221 *)

task_frame == <<file, append, out_file, out_state, main_pc, playlist_lines,
                out_opens, result_string>>

\* analyze is entered: println! and Command::new("ffmpeg")
TaskStart(i) ==
    /\ main_pc = "par"
    /\ pc[i] = "idle"
    /\ pc' = [pc EXCEPT ![i] = "sampling"]
    /\ UNCHANGED <<task_frame, results, lock, r, store_order>>
    /\ UNCHANGED analyze_vars

\* .output().unwrap() fails: the sampler cannot be launched
TaskLaunchFail(i) ==
    /\ main_pc = "par"
    /\ pc[i] = "sampling"
    /\ pc' = [pc EXCEPT ![i] = "panicked"]
    /\ UNCHANGED <<task_frame, results, lock, r, store_order>>
    /\ UNCHANGED analyze_vars

\* a parse().unwrap() of lines 101, 106, 116, 121-123 fails
TaskParseFail(i) ==
    /\ main_pc = "par"
    /\ pc[i] = "sampling"
    /\ pc' = [pc EXCEPT ![i] = "panicked"]
    /\ UNCHANGED <<task_frame, results, lock, r, store_order>>
    /\ UNCHANGED analyze_vars

\* measure.len() == 0: panic!("Couldn't measure filename")
TaskNoSamples(i) ==
    /\ main_pc = "par"
    /\ pc[i] = "sampling"
    /\ pc' = [pc EXCEPT ![i] = "panicked"]
    /\ UNCHANGED <<task_frame, results, lock, r, store_order>>
    /\ UNCHANGED analyze_vars

\* let r = analyze(&op, args.level, args.cue); no sampler output exists for
\* the empty path
TaskAnalyzed(i) ==
    /\ main_pc = "par"
    /\ pc[i] = "sampling"
    /\ playlist_lines[i] # <<>>
    /\ \E prof \in MainProfiles :
          r' = [r EXCEPT ![i] = <<Analyze(playlist_lines[i], prof, vol_drop, vol_start)>>]
    /\ pc' = [pc EXCEPT ![i] = "computed"]
    /\ UNCHANGED <<task_frame, results, lock, store_order>>
    /\ UNCHANGED analyze_vars

TaskLock_early(i) ==
    /\ main_pc = "par"
    /\ pc[i] \in {"idle", "computed"}
    /\ lock = 0
    /\ lock' = i
    /\ pc' = [pc EXCEPT ![i] = IF pc[i] = "idle" THEN "sampling" ELSE "locked"]
    /\ UNCHANGED <<task_frame, results, r, store_order>>
    /\ UNCHANGED analyze_vars

\* results.lock().unwrap()
TaskLock(i) ==
    /\ main_pc = "par"
    /\ pc[i] = "computed"
    /\ lock = 0
    /\ lock' = i
    /\ pc' = [pc EXCEPT ![i] = "locked"]
    /\ UNCHANGED <<task_frame, results, r, store_order>>
    /\ UNCHANGED analyze_vars

\* a push in completion order instead of the indexed store
TaskStore_push(i) ==
    /\ main_pc = "par"
    /\ pc[i] = "locked"
    /\ lock = i
    /\ results' = [results EXCEPT ![Len(store_order) + 1] = r[i][1]]
    /\ store_order' = Append(store_order, i)
    /\ pc' = [pc EXCEPT ![i] = "stored"]
    /\ UNCHANGED <<task_frame, lock, r>>
    /\ UNCHANGED analyze_vars

\* [i] = r
TaskStore(i) ==
    /\ main_pc = "par"
    /\ pc[i] = "locked"
    /\ lock = i
    /\ results' = [results EXCEPT ![i] = r[i][1]]
    /\ store_order' = Append(store_order, i)
    /\ pc' = [pc EXCEPT ![i] = "stored"]
    /\ UNCHANGED <<task_frame, lock, r>>
    /\ UNCHANGED analyze_vars

\* the MutexGuard temporary is dropped at the end of the statement
TaskUnlock(i) ==
    /\ main_pc = "par"
    /\ pc[i] = "stored"
    /\ lock = i
    /\ lock' = 0
    /\ pc' = [pc EXCEPT ![i] = "done"]
    /\ UNCHANGED <<task_frame, results, r, store_order>>
    /\ UNCHANGED analyze_vars

AnyPanicked == \E i \in Tasks : pc[i] = "panicked"

\* once a closure has panicked, rayon may drop entries it has not started
TaskSkipped(i) ==
    /\ main_pc = "par"
    /\ pc[i] = "idle"
    /\ AnyPanicked
    /\ pc' = [pc EXCEPT ![i] = "skipped"]
    /\ UNCHANGED <<task_frame, results, lock, r, store_order>>
    /\ UNCHANGED analyze_vars

----------------------------------------------------------------------------
(* main(), after the parallel loop *)

JoinReady_any == \E i \in Tasks : pc[i] \in Terminated

\* for_each returns (or resumes the panic) when every closure has ended
JoinReady == \A i \in Tasks : pc[i] \in Terminated

Propagates_never == FALSE

\* rayon resumes a closure's panic in the caller of for_each
Propagates == AnyPanicked

JoinPanic ==
    /\ main_pc = "par"
    /\ JoinReady
    /\ Propagates
    /\ main_pc' = "panic_analysis"
    /\ UNCHANGED <<file, append, out_file, out_state, playlist_lines, results, lock,
                   pc, r, store_order, out_opens, result_string>>
    /\ UNCHANGED analyze_vars

JoinOk ==
    /\ main_pc = "par"
    /\ JoinReady
    /\ ~Propagates
    /\ main_pc' = "open"
    /\ UNCHANGED <<file, append, out_file, out_state, playlist_lines, results, lock,
                   pc, r, store_order, out_opens, result_string>>
    /\ UNCHANGED analyze_vars

\* write_options.open fails and File::create(...).unwrap() fails
OpenOutputFail ==
    /\ main_pc = "open"
    /\ out_state = "denied"
    /\ main_pc' = "panic_open"
    /\ UNCHANGED <<file, append, out_file, out_state, playlist_lines, results, lock,
                   pc, r, store_order, out_opens, result_string>>
    /\ UNCHANGED analyze_vars

\* write_options.open: an existing file is truncated unless --append; a
\* missing one makes open fail and File::create makes it, empty
OpenOutput ==
    /\ main_pc = "open"
    /\ out_state # "denied"
    /\ out_file' = IF out_state = "present" /\ append THEN out_file ELSE <<>>
    /\ out_state' = "present"
    /\ out_opens' = out_opens + 1
    /\ main_pc' = "format"
    /\ UNCHANGED <<file, append, playlist_lines, results, lock,
                   pc, r, store_order, result_string>>
    /\ UNCHANGED analyze_vars

\* lines 260-270: the header unless --append, then one line per result
FormatOutput ==
    /\ main_pc = "format"
    /\ lock = 0
    /\ result_string' = (IF ~append THEN <<HeaderLine>> ELSE <<>>)
                         \o [i \in 1..Len(results) |-> Annotate(results[i])]
    /\ main_pc' = "write"
    /\ UNCHANGED <<file, append, out_file, out_state, playlist_lines, results, lock,
                   pc, r, store_order, out_opens>>
    /\ UNCHANGED analyze_vars

\* write!(writer, "{result_string}").unwrap()
WriteOutput ==
    /\ main_pc = "write"
    /\ out_file' = out_file \o result_string
    /\ main_pc' = "done"
    /\ UNCHANGED <<file, append, out_state, playlist_lines, results, lock,
                   pc, r, store_order, out_opens, result_string>>
    /\ UNCHANGED analyze_vars

\* the write fails part-way and unwrap panics
WriteOutputFail ==
    /\ main_pc = "write"
    /\ \E k \in 0..(Len(result_string) - 1) :
          out_file' = out_file \o SubSeq(result_string, 1, k)
    /\ main_pc' = "panic_write"
    /\ UNCHANGED <<file, append, out_state, playlist_lines, results, lock,
                   pc, r, store_order, out_opens, result_string>>
    /\ UNCHANGED analyze_vars

Next ==
    \/ OpenPlaylistFail
    \/ ReadPlaylist
    \/ AllocSlot
    \/ StartParallel
    \/ \E i \in Tasks : TaskStart(i)
    \/ \E i \in Tasks : TaskLaunchFail(i)
    \/ \E i \in Tasks : TaskParseFail(i)
    \/ \E i \in Tasks : TaskNoSamples(i)
    \/ \E i \in Tasks : TaskAnalyzed(i)
    \/ \E i \in Tasks : TaskLock(i)
    \/ \E i \in Tasks : TaskStore(i)
    \/ \E i \in Tasks : TaskUnlock(i)
    \/ \E i \in Tasks : TaskSkipped(i)
    \/ JoinPanic
    \/ JoinOk
    \/ OpenOutputFail
    \/ OpenOutput
    \/ FormatOutput
    \/ WriteOutput
    \/ WriteOutputFail

Spec == Init /\ [][Next]_vars

----------------------------------------------------------------------------
(* One call of analyze(), statement by statement *)

\* timestamps (tenths of a second) and momentary loudness (LU) of the samples
SampleTimes == {0, 3, 4, 5, 49, 50}
SampleLouds == {-60, -54, -37, -31, -22, -15}
Samples == SampleTimes \X SampleLouds

\* the summary block: integrated loudness and the time= of the status line
Loudnesses == {-14, -23}
Durations == {2, 200}

\* --level and --cue
Levels == {DefaultLevel, 23}
Cues == {DefaultCue, 46}

AnalyzedPath == <<"a">>

InitAnalyze ==
    /\ measure \in SeqsUpTo(Samples, MaxSamples)
    /\ loudness \in Loudnesses
    /\ duration \in Durations
    /\ vol_drop \in Levels
    /\ vol_start \in Cues
    /\ a_pc = "start"
    /\ ebu_cue_time = 0
    /\ cue_time = 0
    /\ next_level = 0
    /\ next_time = 0
    /\ rev_scans = 0
    /\ a_result = DefaultResult
    /\ file = <<>>
    /\ append = FALSE
    /\ out_file = <<>>
    /\ out_state = "absent"
    /\ main_pc = "off"
    /\ playlist_lines = <<>>
    /\ results = <<>>
    /\ lock = 0
    /\ pc = <<>>
    /\ r = <<>>
    /\ store_order = <<>>
    /\ out_opens = 0
    /\ result_string = <<>>

analyze_inputs == <<measure, loudness, duration, vol_drop, vol_start>>

\* lines 111-113: panic!("Couldn't measure filename")
AnalyzeEmpty ==
    /\ a_pc = "start"
    /\ Len(measure) = 0
    /\ a_pc' = "panic"
    /\ UNCHANGED <<analyze_inputs, ebu_cue_time, cue_time, next_level, next_time,
                   rev_scans, a_result>>
    /\ UNCHANGED main_vars

\* lines 130-140
AnalyzeCue ==
    /\ a_pc = "start"
    /\ Len(measure) # 0
    /\ ebu_cue_time' = first_time_threshold(measure, CueLevel(loudness, vol_start), FALSE)
    /\ cue_time' = CueTime(ebu_cue_time')
    /\ a_pc' = "cue"
    /\ UNCHANGED <<analyze_inputs, next_level, next_time, rev_scans, a_result>>
    /\ UNCHANGED main_vars

\* lines 146-147
AnalyzeNext ==
    /\ a_pc = "cue"
    /\ next_level' = NextLevel(loudness, vol_drop)
    /\ next_time' = first_time_threshold(measure, next_level', TRUE)
    /\ rev_scans' = rev_scans + 1
    /\ a_pc' = "next"
    /\ UNCHANGED <<analyze_inputs, ebu_cue_time, cue_time, a_result>>
    /\ UNCHANGED main_vars

\* lines 153-156, the condition holds
AnalyzeTail ==
    /\ a_pc = "next"
    /\ TailTooLong(duration, next_time)
    /\ next_level' = CorrectedLevel(loudness, vol_drop)
    /\ next_time' = first_time_threshold(measure, next_level', TRUE)
    /\ rev_scans' = rev_scans + 1
    /\ a_pc' = "tail"
    /\ UNCHANGED <<analyze_inputs, ebu_cue_time, cue_time, a_result>>
    /\ UNCHANGED main_vars

\* line 153, the condition fails
AnalyzeNoTail ==
    /\ a_pc = "next"
    /\ ~TailTooLong(duration, next_time)
    /\ a_pc' = "tail"
    /\ UNCHANGED <<analyze_inputs, ebu_cue_time, cue_time, next_level, next_time,
                   rev_scans, a_result>>
    /\ UNCHANGED main_vars

\* lines 158-166
AnalyzeReturn ==
    /\ a_pc = "tail"
    /\ a_result' = MakeResult(StartNext(duration, next_time), cue_time, duration,
                              loudness, AnalyzedPath)
    /\ a_pc' = "done"
    /\ UNCHANGED <<analyze_inputs, ebu_cue_time, cue_time, next_level, next_time,
                   rev_scans>>
    /\ UNCHANGED main_vars

NextAnalyze ==
    \/ AnalyzeEmpty
    \/ AnalyzeCue
    \/ AnalyzeNext
    \/ AnalyzeTail
    \/ AnalyzeNoTail
    \/ AnalyzeReturn

SpecAnalyze == InitAnalyze /\ [][NextAnalyze]_vars

\* the stepwise call and the operator Analyze used by the closure agree
AnalyzeAgrees ==
    a_pc = "done" =>
        a_result = Analyze(AnalyzedPath,
                           [measure |-> measure, loudness |-> loudness,
                            duration |-> duration], vol_drop, vol_start)

----------------------------------------------------------------------------
(* Properties of a whole run (specification Spec) *)

\* the parallel loop has been entered, so pc, r and results have one entry
\* per playlist line
Forked == main_pc \in {"par", "panic_analysis", "open", "panic_open", "format",
                       "write", "done", "panic_write"}

\* the main thread is at or past the read of the results vector (line 266)
AtOutput == main_pc \in {"format", "write", "done", "panic_write"}

RunEnded == main_pc \in {"done", "panic_input", "panic_analysis", "panic_open",
                         "panic_write"}

AllAnalysed == Forked /\ \A i \in Tasks : pc[i] = "done"

AnyAnalysisFailed == Forked /\ \E i \in Tasks : pc[i] = "panicked"

Occurrences(seq, x) == Cardinality({k \in 1..Len(seq) : seq[k] = x})

\* the annotate lines of a sequence of output lines, in order
AnnotateLines(ls) == SelectSeq(ls, LAMBDA l : l.text = "annotate")

\* the output path is as the run found it
OutputUntouched ==
    /\ out_opens = 0
    /\ out_state \in {"absent", "present", "denied"}
    /\ out_file = IF out_state = "present" THEN <<OldLine>> ELSE <<>>

\* one annotate line per playlist entry, in playlist order, after the header
\* (or, with --append, after what the file held)
OutputComplete ==
    /\ Len(AnnotateLines(out_file)) = Len(playlist_lines)
    /\ \A i \in Tasks :
          /\ AnnotateLines(out_file)[i] = Annotate(r[i][1])
          /\ AnnotateLines(out_file)[i].path = playlist_lines[i]
    /\ \E k \in 0..1 :
          /\ Len(out_file) = k + Len(playlist_lines)
          /\ SubSeq(out_file, k + 1, Len(out_file)) = AnnotateLines(out_file)
          /\ ~append => k = 1 /\ out_file[1] = HeaderLine
          /\ append /\ k = 1 => out_file[1] = OldLine

\* C1: whatever the order in which the closures complete, when the results
\* vector is read for output its i-th element is the result computed for the
\* i-th playlist entry, and the lines formatted from it are in playlist order.
C1_OrderPreserved ==
    AtOutput =>
        /\ Len(results) = Len(playlist_lines)
        /\ \A i \in Tasks :
              /\ results[i].path = playlist_lines[i]
              /\ results[i] = r[i][1]
        /\ main_pc \in {"write", "done", "panic_write"} =>
              /\ Len(AnnotateLines(result_string)) = Len(playlist_lines)
              /\ \A i \in Tasks :
                    AnnotateLines(result_string)[i].path = playlist_lines[i]

\* two different tracks, the second stored before the first, and the output
\* written
C1_Witness ==
    /\ main_pc = "done"
    /\ Len(playlist_lines) = 2
    /\ playlist_lines[1] # playlist_lines[2]
    /\ store_order = <<2, 1>>
    /\ results[1] # results[2]

IsMediaPath(s) == s # Header /\ s # <<>>

\* C4: after the playlist is read no line kept for analysis is the header
\* marker #EXTM3U, the other non-empty lines of the file are kept in file
\* order, and no closure is started on a header or an empty line.
C4_HeaderDropped ==
    /\ main_pc \notin {"start", "panic_input"} =>
          /\ \A k \in 1..Len(playlist_lines) : playlist_lines[k] # Header
          /\ SelectSeq(playlist_lines, IsMediaPath) = SelectSeq(Lines(file), IsMediaPath)
    /\ Forked => \A i \in Tasks :
          pc[i] \notin {"idle", "skipped"} => IsMediaPath(playlist_lines[i])

\* C8: the output file is opened at most once, and whenever it has been
\* opened or the results are being serialized every closure has completed,
\* every slot holds its closure's result instead of the default placeholder,
\* and every slot has been stored exactly once, so that no store follows.
C8_SerializedAfterAll ==
    /\ out_opens <= 1
    /\ main_pc = "done" => out_opens = 1
    /\ (out_opens > 0 \/ AtOutput) =>
          /\ Forked
          /\ \A i \in Tasks :
                /\ pc[i] = "done"
                /\ results[i] # DefaultResult
                /\ results[i] = r[i][1]
                /\ Occurrences(store_order, i) = 1
          /\ Len(store_order) = Len(playlist_lines)
          /\ lock = 0

\* the output was written from two results
C8_Witness ==
    /\ main_pc = "done"
    /\ out_opens = 1
    /\ Len(playlist_lines) = 2
    /\ Len(store_order) = 2

\* C9: a closure holds the lock only between the end of its analysis and its
\* single store: never while idle, sampling, failed or skipped; each slot is
\* stored at most once, with the complete result; and whenever a closure
\* waits for the lock, the lock is free or its holder needs no sampler to
\* release it.
C9_NarrowLock ==
    Forked =>
        /\ lock = 0 \/ (lock \in Tasks /\ pc[lock] \in {"locked", "stored"})
        /\ \A i \in Tasks :
              /\ pc[i] \in {"locked", "stored"} => lock = i /\ r[i] # <<>>
              /\ Occurrences(store_order, i) <= 1
              /\ Occurrences(store_order, i) = 1 <=> pc[i] \in {"stored", "done"}
              /\ pc[i] \in {"stored", "done"} =>
                    results[i] = r[i][1] /\ results[i].path = playlist_lines[i]
              /\ pc[i] \in {"idle", "sampling", "computed", "panicked", "skipped"} =>
                    results[i] = DefaultResult

\* the first entry's closure is still in its sampler while the second
\* entry's closure has stored its result and released the lock
C9_Witness ==
    /\ main_pc = "par"
    /\ Len(playlist_lines) = 2
    /\ pc[1] = "sampling"
    /\ pc[2] = "done"
    /\ results[2] = r[2][1]
    /\ results[1] = DefaultResult

----------------------------------------------------------------------------
(* Properties of analyze() (specification SpecAnalyze) *)

\* the indices of the samples whose loudness is strictly above thr
Above(m, thr) == {k \in 1..Len(m) : m[k][2] > thr}

MinOf(S) == CHOOSE x \in S : \A y \in S : x <= y
MaxOf(S) == CHOOSE x \in S : \A y \in S : x >= y

\* timestamp of the lowest-index sample above thr, 0 when there is none
FirstAboveTime(m, thr) == IF Above(m, thr) = {} THEN 0 ELSE m[MinOf(Above(m, thr))][1]

\* timestamp of the highest-index sample above thr, 0 when there is none
LastAboveTime(m, thr) == IF Above(m, thr) = {} THEN 0 ELSE m[MaxOf(Above(m, thr))][1]

\* the T_drop of the first backward scan
FirstDrop == LastAboveTime(measure, loudness - vol_drop)

TimeOrdered(m) == \A j, k \in 1..Len(m) : j <= k => m[j][1] <= m[k][1]
NonNegative(m) == \A k \in 1..Len(m) : m[k][1] >= 0

\* C3 as stated: every result for a time-ordered sample sequence has
\* 0 <= cue_point <= duration and 0 <= start_next <= duration.
C3_AsStated ==
    a_pc = "done" /\ TimeOrdered(measure) =>
        /\ a_result.cue_point >= 0
        /\ a_result.start_next >= 0
        /\ a_result.cue_point <= a_result.duration
        /\ a_result.start_next <= a_result.duration

\* C3, amended: every result has cue_point >= 0 and start_next >= 0; it has
\* cue_point <= duration and start_next <= duration when every sample's
\* timestamp lies between 0 and the duration.
C3_Bounds ==
    a_pc = "done" =>
        /\ a_result.cue_point >= 0
        /\ a_result.start_next >= 0
        /\ (\A k \in 1..Len(measure) :
               0 <= measure[k][1] /\ measure[k][1] <= duration) =>
              /\ a_result.cue_point <= a_result.duration
              /\ a_result.start_next <= a_result.duration

\* samples inside the track, a cue point and a trigger strictly inside it
C3_Witness ==
    /\ a_pc = "done"
    /\ \A k \in 1..Len(measure) : measure[k][1] <= duration
    /\ 0 < a_result.cue_point
    /\ a_result.cue_point < a_result.duration
    /\ 0 < a_result.start_next
    /\ a_result.start_next < a_result.duration

\* C5: the forward scan returns the timestamp of the lowest-index sample
\* strictly above the threshold, the backward scan that of the highest-index
\* one, and each returns 0 when no sample is strictly above it.
C5_ScanCorrect ==
    /\ a_pc \in {"cue", "next", "tail", "done"} =>
          ebu_cue_time = FirstAboveTime(measure, loudness - vol_start)
    /\ a_pc \in {"next", "tail", "done"} =>
          next_time = LastAboveTime(measure, next_level)

\* the last sample is exactly at the threshold and does not count: the
\* backward scan returns the earlier sample, which is above it
C5_Witness ==
    /\ a_pc = "next"
    /\ Len(measure) = 2
    /\ measure[2][2] = next_level
    /\ measure[1][2] > next_level
    /\ measure[1][1] # measure[2][1]
    /\ next_time = measure[1][1]

\* C6: the backward scan is run a second time, at the level lowered by 15 LU,
\* exactly when duration minus the first T_drop is more than 15 s; it is
\* never run a third time; start_next is max(0, duration - T_drop) with the
\* second scan's T_drop when it ran and the first scan's otherwise.
C6_TailCorrection ==
    a_pc \in {"tail", "done"} =>
        /\ rev_scans \in {1, 2}
        /\ rev_scans = 2 <=> duration - FirstDrop > 150
        /\ next_time = IF duration - FirstDrop > 150
                       THEN LastAboveTime(measure, loudness - vol_drop - 15)
                       ELSE FirstDrop
        /\ a_pc = "done" =>
              a_result.start_next = Max(0, duration - next_time)

\* a tail of 15.1 s: the second scan ran and moved the trigger
C6_Witness ==
    /\ a_pc = "done"
    /\ duration - FirstDrop = 151
    /\ rev_scans = 2
    /\ next_time # FirstDrop
    /\ a_result.start_next = duration - next_time

\* C7: cue_point is max(0, T_cue_raw - 0.4) for the forward scan's T_cue_raw
\* at the level integrated loudness - start threshold; it is never negative
\* and is 0 whenever T_cue_raw < 0.4.
C7_WindowCompensation ==
    a_pc = "done" =>
        LET raw == FirstAboveTime(measure, loudness - vol_start)
        IN  /\ a_result.cue_point = Max(0, raw - 4)
            /\ a_result.cue_point >= 0
            /\ raw < 4 => a_result.cue_point = 0

\* the first sample above the cue level is at 0.3 s: the cue point is 0
C7_Witness ==
    /\ a_pc = "done"
    /\ ebu_cue_time = 3
    /\ a_result.cue_point = 0

\* C10: for samples with non-negative, non-decreasing timestamps the second
\* backward scan never returns an earlier time than the first, so start_next
\* is never larger than the first scan alone would make it.
C10_CorrectionNotEarlier ==
    (TimeOrdered(measure) /\ NonNegative(measure)) =>
        /\ a_pc \in {"tail", "done"} => next_time >= FirstDrop
        /\ a_pc = "done" => a_result.start_next <= Max(0, duration - FirstDrop)

\* ordered samples, the second scan ran and found a strictly later sample
C10_Witness ==
    /\ a_pc = "done"
    /\ TimeOrdered(measure)
    /\ rev_scans = 2
    /\ next_time > FirstDrop
    /\ a_result.start_next < duration - FirstDrop

====
